---- MODULE Spec2Model ----
(***************************************************************************)
(* Model of the queuedrwlock crate: the admission state and the engine of  *)
(* src/src/raw.rs (RawQueuedRwLock, State) and the guard layer of          *)
(* src/src/lib.rs (QueuedRwLock and its read, write and ticket guards).    *)
(*                                                                         *)
(* Every operation of RawQueuedRwLock runs under the one std Mutex, so one *)
(* critical section is one atomic action; Condvar::wait ends the critical  *)
(* section and the re-check after a wake-up is a new one.                  *)
(***************************************************************************)
EXTENDS Integers, FiniteSets, Sequences, TLC

\* ---- bounds of the model
NumThreads == 2
MaxTickets == 2
MaxReadGuards == 1

\* usize is at least 16 bits wide; the wrapped value of 0 - 1 is 2^w - 1,
\* which no ticket counter within MaxTickets can equal
UsizeBits == 16

Threads == 1..NumThreads
UsizeModulus == 2 ^ UsizeBits

VARIABLES
    state,            \* raw.rs State: writer, readers, next_ticket, total_tickets
    writer_cv,        \* threads blocked in RawQueuedRwLock.writer.wait
    reader_cv,        \* threads blocked in RawQueuedRwLock.reader.wait
    mutex_poisoned,   \* std Mutex poison flag of RawQueuedRwLock.state
    data_poisoned,    \* poison flag of the Poison<T> cell in QueuedRwLock.data
    pc,               \* position of each thread
    wticket,          \* ticket argument of the thread's write(ticket) call
    caller,           \* who called write(ticket): "redeem" or "drop"
    tickets,          \* unredeemed ticket guards each thread owns
    rguards,          \* number of read guards each thread owns
    wguards,          \* number of write guards each thread owns
    ret               \* the call that returned in the last step and its value

vars == <<state, writer_cv, reader_cv, mutex_poisoned, data_poisoned,
          pc, wticket, caller, tickets, rguards, wguards, ret>>

\* ---- raw.rs: impl State
State_new == [writer |-> FALSE, readers |-> 0, next_ticket |-> 0, total_tickets |-> 0]

\* add_reader that does not count the reader
add_reader_lost(s) == s

add_reader(s) == [s EXCEPT !.readers = @ + 1]

remove_reader(s) == [s EXCEPT !.readers = @ - 1]

has_readers(s) == s.readers # 0

\* add_writer that forgets to advance the queue
add_writer_no_advance(s) == [s EXCEPT !.writer = TRUE]

add_writer(s) == [s EXCEPT !.next_ticket = @ + 1, !.writer = TRUE]

remove_writer(s) == [s EXCEPT !.writer = FALSE]

has_writer(s) == s.writer

\* take_ticket that hands out the counter without advancing it
take_ticket_stale(s) == s

\* take_ticket that also advances next_ticket, as if issuing were admitting
take_ticket_advances_next(s) ==
    [s EXCEPT !.total_tickets = @ + 1, !.next_ticket = @ + 1]

take_ticket(s) == [s EXCEPT !.total_tickets = @ + 1]

is_next(s, ticket) == s.next_ticket = ticket

\* usize subtraction as a build without overflow checks computes it
wrapping_sub(a, b) == (a - b + UsizeModulus) % UsizeModulus

\* total_tickets - 1 underflows when no ticket was ever issued
queue_empty_overflows(s) == s.total_tickets < 1

queue_empty(s) == s.next_ticket = wrapping_sub(s.total_tickets, 1)

\* names the specification uses for the fields
writer_held == state.writer
reader_count == state.readers
next_ticket == state.next_ticket
total_tickets == state.total_tickets

\* ---- the Poison<T> cell (crate poison)
PoisonGet(p) == IF p THEN "Poisoned" ELSE "Ok"

PoisonLock(p) == IF p THEN "Poisoned" ELSE "Ok"

PoisonGuardDone(p, unwinding) == p \/ unwinding

\* ---- lib.rs: guard constructors
\* a read guard built without asking the Poison cell
QueuedRwLockReadGuard_new_unchecked(p) == "Ok"

QueuedRwLockReadGuard_new(p) == PoisonGet(p)

QueuedRwLockWriteGuard_new(p) == PoisonLock(p)

Ret(t, op, res, k) == [thread |-> t, op |-> op, res |-> res, ticket |-> k]

\* the last step returned no value to a caller
NoRet == Ret(0, "none", "none", 0)

Init ==
    /\ state = State_new
    /\ writer_cv = {}
    /\ reader_cv = {}
    /\ mutex_poisoned = FALSE
    /\ data_poisoned = FALSE
    /\ pc = [t \in Threads |-> "idle"]
    /\ wticket = [t \in Threads |-> 0]
    /\ caller = [t \in Threads |-> "redeem"]
    /\ tickets = [t \in Threads |-> {}]
    /\ rguards = [t \in Threads |-> 0]
    /\ wguards = [t \in Threads |-> 0]
    /\ ret = NoRet

\* ---- RawQueuedRwLock::read with QueuedRwLock::read around it
\* one pass of the loop of read(): wait on `writer`, or add_reader and return
\* read() testing the reader count instead of the writer flag
read_must_wait_readers(s) == has_readers(s)

\* the test of the loop of read(): TRUE when the caller waits
read_must_wait(s) == has_writer(s)

ReadBody(t) ==
    IF read_must_wait(state)
    THEN /\ writer_cv' = writer_cv \cup {t}
         /\ pc' = [pc EXCEPT ![t] = "read_wait"]
         /\ ret' = NoRet
         /\ UNCHANGED <<state, rguards>>
    ELSE /\ state' = add_reader(state)
         /\ rguards' = [rguards EXCEPT ![t] = @ + 1]
         /\ ret' = Ret(t, "read", QueuedRwLockReadGuard_new(data_poisoned), 0)
         /\ pc' = [pc EXCEPT ![t] = "idle"]
         /\ UNCHANGED writer_cv

Read(t) ==
    /\ ~mutex_poisoned
    /\ pc[t] = "idle"
    /\ rguards[t] < MaxReadGuards
    /\ ReadBody(t)
    /\ UNCHANGED <<reader_cv, mutex_poisoned, data_poisoned,
                   wticket, caller, tickets, wguards>>

\* woken from writer.wait: the loop of read() again
ReadWake(t) ==
    /\ ~mutex_poisoned
    /\ pc[t] = "read_wait"
    /\ t \notin writer_cv
    /\ ReadBody(t)
    /\ UNCHANGED <<reader_cv, mutex_poisoned, data_poisoned,
                   wticket, caller, tickets, wguards>>

\* ---- RawQueuedRwLock::try_read with QueuedRwLock::try_read around it
\* try_read that also defers to outstanding tickets
try_read_admits_no_queue(s) == ~has_writer(s) /\ s.next_ticket = s.total_tickets

\* the test of try_read(): TRUE when the reader is admitted
try_read_admits(s) == ~has_writer(s)

TryRead(t) ==
    /\ ~mutex_poisoned
    /\ pc[t] = "idle"
    /\ rguards[t] < MaxReadGuards
    /\ IF try_read_admits(state)
       THEN /\ state' = add_reader(state)
            /\ rguards' = [rguards EXCEPT ![t] = @ + 1]
            /\ ret' = Ret(t, "try_read", QueuedRwLockReadGuard_new(data_poisoned), 0)
       ELSE /\ ret' = Ret(t, "try_read", "WouldBlock", 0)
            /\ UNCHANGED <<state, rguards>>
    /\ UNCHANGED <<writer_cv, reader_cv, mutex_poisoned,
                   data_poisoned, pc, wticket, caller, tickets, wguards>>

\* ---- RawQueuedRwLock::read_unlock
read_unlock(s) == remove_reader(s)

\* the waiters read_unlock leaves on `reader`: notify_all empties the set
read_unlock_notify(s, waiting) ==
    IF has_writer(s) /\ ~has_readers(s) THEN {} ELSE waiting

\* Drop for QueuedRwLockReadGuard
ReadGuardDrop(t) ==
    /\ ~mutex_poisoned
    /\ pc[t] = "idle"
    /\ rguards[t] > 0
    /\ state' = read_unlock(state)
    /\ reader_cv' = read_unlock_notify(read_unlock(state), reader_cv)
    /\ rguards' = [rguards EXCEPT ![t] = @ - 1]
    /\ ret' = NoRet
    /\ UNCHANGED <<writer_cv, mutex_poisoned, data_poisoned,
                   pc, wticket, caller, tickets, wguards>>

\* ---- QueuedRwLock::take_ticket
TakeTicket(t) ==
    /\ ~mutex_poisoned
    /\ pc[t] = "idle"
    /\ state.total_tickets < MaxTickets
    /\ tickets' = [tickets EXCEPT ![t] = @ \cup {state.total_tickets}]
    /\ state' = take_ticket(state)
    /\ ret' = NoRet
    /\ UNCHANGED <<writer_cv, reader_cv, mutex_poisoned,
                   data_poisoned, pc, wticket, caller, rguards, wguards>>

\* ---- RawQueuedRwLock::write
\* the test of the first loop of write(ticket): TRUE when the caller waits
write_must_wait(s, ticket) == has_writer(s) /\ ~is_next(s, ticket)

\* write(ticket) has returned to its caller c: ticket.write() builds the write
\* guard, the ticket guard's destructor goes on to write_unlock
WriteReturn(t, k, c) ==
    /\ wticket' = [wticket EXCEPT ![t] = 0]
    /\ caller' = [caller EXCEPT ![t] = "redeem"]
    /\ IF c = "redeem"
       THEN /\ wguards' = [wguards EXCEPT ![t] = @ + 1]
            /\ ret' = Ret(t, "write", QueuedRwLockWriteGuard_new(data_poisoned), k)
            /\ pc' = [pc EXCEPT ![t] = "idle"]
       ELSE /\ pc' = [pc EXCEPT ![t] = "drop_unlock"]
            /\ ret' = Ret(t, "drop_write", "unit", k)
            /\ UNCHANGED wguards

\* first loop of write(ticket), then add_writer and the first test of the
\* second loop, all in one critical section
WriteA(t, k, c) ==
    IF write_must_wait(state, k)
    THEN /\ writer_cv' = writer_cv \cup {t}
         /\ pc' = [pc EXCEPT ![t] = "write_a"]
         /\ wticket' = [wticket EXCEPT ![t] = k]
         /\ caller' = [caller EXCEPT ![t] = c]
         /\ ret' = NoRet
         /\ UNCHANGED <<state, reader_cv, wguards>>
    ELSE /\ state' = add_writer(state)
         /\ UNCHANGED writer_cv
         /\ IF has_readers(add_writer(state))
            THEN /\ reader_cv' = reader_cv \cup {t}
                 /\ pc' = [pc EXCEPT ![t] = "write_c"]
                 /\ wticket' = [wticket EXCEPT ![t] = k]
                 /\ caller' = [caller EXCEPT ![t] = c]
                 /\ ret' = NoRet
                 /\ UNCHANGED wguards
            ELSE /\ WriteReturn(t, k, c)
                 /\ UNCHANGED reader_cv

\* QueuedRwLock::write: take_ticket, then (a second critical section) write
LockWrite(t) ==
    /\ ~mutex_poisoned
    /\ pc[t] = "idle"
    /\ state.total_tickets < MaxTickets
    /\ wticket' = [wticket EXCEPT ![t] = state.total_tickets]
    /\ caller' = [caller EXCEPT ![t] = "redeem"]
    /\ state' = take_ticket(state)
    /\ pc' = [pc EXCEPT ![t] = "write_call"]
    /\ ret' = NoRet
    /\ UNCHANGED <<writer_cv, reader_cv, mutex_poisoned,
                   data_poisoned, tickets, rguards, wguards>>

WriteEnter(t) ==
    /\ ~mutex_poisoned
    /\ pc[t] = "write_call"
    /\ WriteA(t, wticket[t], caller[t])
    /\ UNCHANGED <<mutex_poisoned, data_poisoned, tickets, rguards>>

\* QueuedRwLockTicketGuard::write
TicketWrite(t, k) ==
    /\ ~mutex_poisoned
    /\ pc[t] = "idle"
    /\ k \in tickets[t]
    /\ tickets' = [tickets EXCEPT ![t] = @ \ {k}]
    /\ WriteA(t, k, "redeem")
    /\ UNCHANGED <<mutex_poisoned, data_poisoned, rguards>>

\* Drop for QueuedRwLockTicketGuard: write(ticket), later write_unlock
TicketGuardDrop(t, k) ==
    /\ ~mutex_poisoned
    /\ pc[t] = "idle"
    /\ k \in tickets[t]
    /\ tickets' = [tickets EXCEPT ![t] = @ \ {k}]
    /\ WriteA(t, k, "drop")
    /\ UNCHANGED <<mutex_poisoned, data_poisoned, rguards>>

\* woken from writer.wait: the first loop of write(ticket) again
WriteWakeA(t) ==
    /\ ~mutex_poisoned
    /\ pc[t] = "write_a"
    /\ t \notin writer_cv
    /\ WriteA(t, wticket[t], caller[t])
    /\ UNCHANGED <<mutex_poisoned, data_poisoned, tickets, rguards>>

\* woken from reader.wait: the second loop of write(ticket) again
WriteWakeC(t) ==
    /\ ~mutex_poisoned
    /\ pc[t] = "write_c"
    /\ t \notin reader_cv
    /\ IF has_readers(state)
       THEN /\ reader_cv' = reader_cv \cup {t}
            /\ ret' = NoRet
            /\ UNCHANGED <<pc, wguards, wticket, caller>>
       ELSE /\ WriteReturn(t, wticket[t], caller[t])
            /\ UNCHANGED reader_cv
    /\ UNCHANGED <<state, writer_cv, mutex_poisoned,
                   data_poisoned, tickets, rguards>>

\* ---- RawQueuedRwLock::write_unlock
write_unlock(s) == remove_writer(s)

\* write_unlock that forgets self.writer.notify_all()
write_unlock_no_notify(waiting) == waiting

\* the waiters write_unlock leaves on `writer`: notify_all empties the set
write_unlock_notify(waiting) == {}

\* second half of Drop for QueuedRwLockTicketGuard
TicketGuardDropUnlock(t) ==
    /\ ~mutex_poisoned
    /\ pc[t] = "drop_unlock"
    /\ state' = write_unlock(state)
    /\ writer_cv' = write_unlock_notify(writer_cv)
    /\ pc' = [pc EXCEPT ![t] = "idle"]
    /\ ret' = NoRet
    /\ UNCHANGED <<reader_cv, mutex_poisoned, data_poisoned,
                   wticket, caller, tickets, rguards, wguards>>

\* Drop for QueuedRwLockWriteGuard: write_unlock in the body of drop; the
\* PoisonGuard field is dropped after the body has run, which touches the
\* Poison cell only when the thread is unwinding
WriteGuardDrop(t, unwinding) ==
    /\ ~mutex_poisoned
    /\ pc[t] = "idle"
    /\ wguards[t] > 0
    /\ state' = write_unlock(state)
    /\ writer_cv' = write_unlock_notify(writer_cv)
    /\ wguards' = [wguards EXCEPT ![t] = @ - 1]
    /\ pc' = [pc EXCEPT ![t] = IF unwinding THEN "guard_unwinding" ELSE "idle"]
    /\ ret' = NoRet
    /\ UNCHANGED <<reader_cv, mutex_poisoned, data_poisoned,
                   wticket, caller, tickets, rguards>>

\* Drop for PoisonGuard in an unwinding thread
PoisonGuardDrop(t) ==
    /\ pc[t] = "guard_unwinding"
    /\ data_poisoned' = PoisonGuardDone(data_poisoned, TRUE)
    /\ pc' = [pc EXCEPT ![t] = "idle"]
    /\ ret' = NoRet
    /\ UNCHANGED <<state, writer_cv, reader_cv, mutex_poisoned,
                   wticket, caller, tickets, rguards, wguards>>

\* ---- RawQueuedRwLock::try_write_skip_queue with QueuedRwLock::try_write
\* the tests of try_write_skip_queue before queue_empty is evaluated
try_write_unheld(s) == ~has_writer(s) /\ ~has_readers(s)

\* try_write_skip_queue that sets the writer flag without a ticket of its own
try_write_claim_no_ticket(s) == add_writer(s)

\* the success branch: take_ticket(), then add_writer()
try_write_claim(s) == add_writer(take_ticket(s))

TryWrite(t) ==
    /\ ~mutex_poisoned
    /\ pc[t] = "idle"
    /\ IF try_write_unheld(state)
       THEN \/ \* a build with overflow checks panics on 0 - 1 with the
               \* MutexGuard alive: the Mutex is poisoned
               /\ queue_empty_overflows(state)
               /\ mutex_poisoned' = TRUE
               /\ pc' = [pc EXCEPT ![t] = "panicked"]
               /\ ret' = NoRet
               /\ UNCHANGED <<state, wguards>>
            \/ \* no overflow, or a build without overflow checks
               /\ IF queue_empty(state)
                  THEN /\ state.total_tickets < MaxTickets
                       /\ state' = try_write_claim(state)
                       /\ wguards' = [wguards EXCEPT ![t] = @ + 1]
                       /\ ret' = Ret(t, "try_write", QueuedRwLockWriteGuard_new(data_poisoned), 0)
                  ELSE /\ ret' = Ret(t, "try_write", "WouldBlock", 0)
                       /\ UNCHANGED <<state, wguards>>
               /\ UNCHANGED <<mutex_poisoned, pc>>
       ELSE /\ ret' = Ret(t, "try_write", "WouldBlock", 0)
            /\ UNCHANGED <<state, wguards, mutex_poisoned, pc>>
    /\ UNCHANGED <<writer_cv, reader_cv, data_poisoned,
                   wticket, caller, tickets, rguards>>

\* ---- Condvar::wait may return without a notification
SpuriousWakeup(t) ==
    /\ t \in writer_cv \cup reader_cv
    /\ writer_cv' = writer_cv \ {t}
    /\ reader_cv' = reader_cv \ {t}
    /\ ret' = NoRet
    /\ UNCHANGED <<state, mutex_poisoned, data_poisoned, pc,
                   wticket, caller, tickets, rguards, wguards>>

\* ---- self.state.lock().unwrap() on a poisoned Mutex panics
LockPoisoned(t) ==
    /\ mutex_poisoned
    /\ pc[t] \notin {"panicked", "guard_unwinding"}
    /\ t \notin writer_cv \cup reader_cv
    /\ pc' = [pc EXCEPT ![t] = "panicked"]
    /\ ret' = NoRet
    /\ UNCHANGED <<state, writer_cv, reader_cv, mutex_poisoned,
                   data_poisoned, wticket, caller, tickets, rguards, wguards>>

Next ==
    \E t \in Threads :
        \/ Read(t)
        \/ ReadWake(t)
        \/ TryRead(t)
        \/ ReadGuardDrop(t)
        \/ TakeTicket(t)
        \/ LockWrite(t)
        \/ WriteEnter(t)
        \/ \E k \in tickets[t] : TicketWrite(t, k)
        \/ \E k \in tickets[t] : TicketGuardDrop(t, k)
        \/ WriteWakeA(t)
        \/ WriteWakeC(t)
        \/ TicketGuardDropUnlock(t)
        \/ \E unwinding \in BOOLEAN : WriteGuardDrop(t, unwinding)
        \/ PoisonGuardDrop(t)
        \/ TryWrite(t)
        \/ SpuriousWakeup(t)
        \/ LockPoisoned(t)

Spec == Init /\ [][Next]_vars

\* a thread inside a call that is not asleep on a Condvar runs on: it gets
\* the mutex and executes the rest of the call
Continue(t) ==
    \/ ReadWake(t)
    \/ WriteEnter(t)
    \/ WriteWakeA(t)
    \/ WriteWakeC(t)
    \/ TicketGuardDropUnlock(t)
    \/ PoisonGuardDrop(t)

\* the scheduler is weakly fair to every thread: what a thread does between
\* calls (taking a guard, dropping one) is the program's choice and not forced
FairSpec == Spec /\ \A t \in Threads : WF_vars(Continue(t))

\* ---- quantities the properties are stated in
RECURSIVE SumOver(_, _)
SumOver(f, S) ==
    IF S = {} THEN 0
    ELSE LET x == CHOOSE y \in S : TRUE IN f[x] + SumOver(f, S \ {x})

\* read guards and write guards that exist and were not dropped yet
ReadGuardsOutstanding == SumOver(rguards, Threads)
WriteGuardsOutstanding == SumOver(wguards, Threads)

\* threads inside write(ticket), before and after add_writer
InWriteQueue(t) == pc[t] \in {"write_call", "write_a"}
Draining(t) == pc[t] = "write_c"

\* tickets issued by take_ticket whose write(ticket) has not returned yet
PendingTickets ==
    UNION {tickets[t] : t \in Threads}
      \cup {wticket[t] : t \in {u \in Threads : InWriteQueue(u) \/ Draining(u)}}

\* the last step was an acquisition that handed a guard to its caller
Acquired(r) == r.op \in {"read", "try_read", "write", "try_write"} /\ r.res # "WouldBlock"

\* ---- C1
\* C1 as stated: reader_count > 0 and writer_held never hold together.
MutualExclusion == ~(reader_count > 0 /\ writer_held)

\* C1, amended: reader_count > 0 and writer_held hold together only while
\* some write(ticket) call has executed add_writer and is in its second loop,
\* waiting for the readers to drain.
MutualExclusionButDraining ==
    (reader_count > 0 /\ writer_held) => \E t \in Threads : Draining(t)

\* a writer has claimed the flag over an admitted reader and waits on `reader`
WitnessDrainingOverReader ==
    /\ reader_count > 0
    /\ writer_held
    /\ \E t \in Threads : Draining(t) /\ t \in reader_cv

\* ---- C2
\* C2: at most one write guard is outstanding at any time.
AtMostOneWriter == WriteGuardsOutstanding <= 1

\* ---- C3
\* C3: no read guard is outstanding while a write guard is outstanding.
ReadersExcludeWriter == ~(ReadGuardsOutstanding > 0 /\ WriteGuardsOutstanding > 0)

\* ---- C4
\* C4: when write(b) returns, no ticket a < b is still waiting to be redeemed
\* or waiting inside write(a).
WriterFIFO ==
    ret.op \in {"write", "drop_write"} => \A a \in PendingTickets : a > ret.ticket

\* ---- C5
\* every guard was dropped and every ticket redeemed, the other threads are
\* idle, and one write(ticket) call still sleeps on a condition variable
Stalled ==
    /\ ~mutex_poisoned
    /\ \E t \in Threads :
        /\ InWriteQueue(t) \/ Draining(t)
        /\ t \in writer_cv \cup reader_cv
        /\ \A u \in Threads \ {t} : pc[u] = "idle"
    /\ \A u \in Threads : tickets[u] = {} /\ rguards[u] = 0 /\ wguards[u] = 0

\* C5: the queue never stalls: no write(ticket) call is left asleep once all
\* guards are dropped and all tickets redeemed.
QueueNeverStalls == ~Stalled

\* ---- C6
DropQueued(t) == pc[t] = "write_a" /\ caller[t] = "drop"
DropAdmitted(t) == (pc[t] = "write_c" /\ caller[t] = "drop") \/ pc[t] = "drop_unlock"

\* C6: the destructor of an unredeemed ticket guard advances next_ticket
\* exactly once (in the step that admits it, and in no other step of the
\* drop), never increases reader_count, and completes with writer_held false.
NoOrphanedTickets ==
    [][\A t \in Threads :
        /\ (~DropQueued(t) /\ DropQueued(t)') => state' = state
        /\ (~DropAdmitted(t) /\ DropAdmitted(t)') =>
              /\ next_ticket' = next_ticket + 1
              /\ reader_count' = reader_count
        /\ (DropAdmitted(t) /\ DropAdmitted(t)' /\ pc'[t] # pc[t]) => state' = state
        /\ DropAdmitted(t) => ~DropQueued(t)'
        /\ (DropAdmitted(t) /\ ~DropAdmitted(t)') =>
              /\ pc[t] = "drop_unlock"
              /\ pc'[t] = "idle"
              /\ ~writer_held'
              /\ next_ticket' = next_ticket
              /\ reader_count' = reader_count
      ]_vars

\* the destructor's write(ticket) has returned and write_unlock comes next
WitnessTicketDropAdmitted ==
    \E t \in Threads : pc[t] = "drop_unlock" /\ ret.op = "drop_write" /\ next_ticket > 0

\* ---- C7
\* C7: try_write_skip_queue never succeeds with a reader, a writer or an
\* unclaimed ticket present; there it returns WouldBlock and changes nothing.
TryWriteExclusive ==
    [][(ret'.op = "try_write"
          /\ (reader_count > 0 \/ writer_held \/ total_tickets > next_ticket))
         => (ret'.res = "WouldBlock" /\ state' = state)]_vars

\* ---- C8
\* C8: try_write succeeds on a lock with no reader, no writer and no
\* unclaimed ticket.
TryWriteSucceedsWhenIdle ==
    [][(ret'.op = "try_write"
          /\ ~writer_held /\ reader_count = 0 /\ next_ticket = total_tickets)
         => ret'.res # "WouldBlock"]_vars

\* ---- C9
\* C9: while a write guard is outstanding, try_read returns WouldBlock and
\* leaves reader_count alone.
TryReadBlockedByWriteGuard ==
    [][(ret'.op = "try_read" /\ WriteGuardsOutstanding > 0)
         => (ret'.res = "WouldBlock" /\ reader_count' = reader_count)]_vars

NextTicketWithinTotal == next_ticket <= total_tickets

\* every issued ticket was admitted and the last admitted writer still holds
WitnessAllTicketsAdmitted ==
    next_ticket = total_tickets /\ total_tickets > 1 /\ writer_held

\* ---- C12
\* ticket guards that exist, by thread, and the ticket of a QueuedRwLock::write
\* call that has taken its ticket and not yet entered write(ticket)
IssuedTo(t) == tickets[t] \cup (IF pc[t] = "write_call" THEN {wticket[t]} ELSE {})

\* C12: every ticket newly handed to a thread is the value of total_tickets
\* before the call, which then grows by exactly one (so the numbers are 0, 1,
\* 2, ... and none is handed out twice); total_tickets never decreases; the
\* step that issues a ticket changes no other field, parks the caller on no
\* condition variable, and every ticket in circulation is below total_tickets
\* and owned by one thread.
TicketsIssuedInOrder ==
    [][/\ total_tickets' >= total_tickets
       /\ \A t \in Threads : \A k \in IssuedTo(t)' \ IssuedTo(t) :
              /\ k = total_tickets
              /\ total_tickets' = total_tickets + 1
              /\ state' = [state EXCEPT !.total_tickets = @ + 1]
              /\ pc[t] = "idle"
              /\ t \notin writer_cv' \cup reader_cv'
       /\ \A t \in Threads : \A k \in IssuedTo(t)' :
              /\ k < total_tickets'
              /\ \A u \in Threads \ {t} : k \notin IssuedTo(u)'
      ]_vars

\* two threads own one ticket each, numbered in the order of issue
WitnessTwoTicketsIssued ==
    \E t, u \in Threads : t # u /\ tickets[t] = {0} /\ tickets[u] = {1} /\ total_tickets = 2

\* ---- C13
\* a write(ticket) call of t has run add_writer and its write_unlock has not run
\* yet: t drains the readers, holds the write guard, or is between the two
\* halves of the ticket guard's destructor
WriterAdmitted(t) == Draining(t) \/ wguards[t] > 0 \/ pc[t] = "drop_unlock"

\* C13: while some writer is between its add_writer and its write_unlock, no
\* step admits a new reader.
NoReaderAdmittedOverWriter ==
    [][(\E t \in Threads : WriterAdmitted(t)) => reader_count' <= reader_count]_vars

\* ---- C14
\* C14: at the step in which write(ticket) returns, writer_held is true and
\* reader_count is zero.
WriteReturnsExclusive ==
    ret.op \in {"write", "drop_write"} => writer_held /\ reader_count = 0

\* ---- C15
\* C15: whenever a thread sleeps on the reader-drained condition in phase (c),
\* writer_held is true.
DrainerSleepsUnderFlag ==
    (\E t \in Threads : pc[t] = "write_c" /\ t \in reader_cv) => writer_held

\* ---- C16
\* C16: try_read hands out a guard and adds one to reader_count exactly when
\* writer_held was false at the call, whatever tickets are outstanding; when
\* it reports WouldBlock it changes no field of the lock.
TryReadDependsOnlyOnWriter ==
    [][ret'.op = "try_read" =>
          /\ (ret'.res # "WouldBlock") <=> ~writer_held
          /\ ret'.res # "WouldBlock" =>
                /\ state' = [state EXCEPT !.readers = @ + 1]
                /\ rguards'[ret'.thread] = rguards[ret'.thread] + 1
          /\ ret'.res = "WouldBlock" =>
                /\ state' = state
                /\ rguards' = rguards
                /\ writer_cv' = writer_cv /\ reader_cv' = reader_cv
      ]_vars

\* try_read was admitted past a ticket that has not been redeemed
WitnessTryReadPastTicket ==
    /\ ret.op = "try_read" /\ ret.res = "Ok"
    /\ next_ticket < total_tickets /\ ~writer_held
    /\ reader_count > 0

\* ---- C18
\* C18: reader_count is the number of read guards in existence, those handed
\* out inside a Poisoned result included, and whenever a read guard exists to
\* be dropped reader_count is positive, so remove_reader never runs at zero.
ReaderCountIsGuardCount ==
    /\ reader_count = ReadGuardsOutstanding
    /\ \A t \in Threads : rguards[t] > 0 => reader_count > 0

\* a read guard handed out inside a Poisoned result is counted
WitnessPoisonedReaderCounted ==
    /\ ret.op = "try_read" /\ ret.res = "Poisoned"
    /\ rguards[ret.thread] = 1 /\ reader_count = ReadGuardsOutstanding

\* ---- C19
\* C19: a successful try_write_skip_queue adds exactly one to total_tickets
\* and to next_ticket and sets writer_held, leaving their difference, the
\* readers and the ticket guards in circulation alone; dropping a write guard
\* redeems no ticket: it clears writer_held and changes neither counter nor
\* starts a write(ticket) call.
TryWriteTakesOwnTicket ==
    [][/\ (ret'.op = "try_write" /\ ret'.res # "WouldBlock") =>
              /\ state' = [state EXCEPT !.total_tickets = @ + 1,
                                        !.next_ticket = @ + 1,
                                        !.writer = TRUE]
              /\ total_tickets' - next_ticket' = total_tickets - next_ticket
              /\ tickets' = tickets
              /\ wguards'[ret'.thread] = wguards[ret'.thread] + 1
       /\ \A t \in Threads : wguards'[t] < wguards[t] =>
              /\ state' = [state EXCEPT !.writer = FALSE]
              /\ tickets' = tickets
              /\ pc'[t] \in {"idle", "guard_unwinding"}
      ]_vars

\* try_write has succeeded and its guard is alive
WitnessTryWriteSucceeded ==
    /\ ret.op = "try_write" /\ ret.res = "Ok"
    /\ writer_held /\ wguards[ret.thread] > 0 /\ next_ticket > 0

\* ---- C20
\* C20: queue_empty never underflows: a try_write on an idle lock that never
\* issued a ticket neither panics on total_tickets - 1 nor reports WouldBlock.
QueueEmptyNeverUnderflows ==
    [][(try_write_unheld(state) /\ total_tickets = 0) =>
          /\ ~(~mutex_poisoned /\ mutex_poisoned')
          /\ ret'.op = "try_write" => ret'.res # "WouldBlock"
      ]_vars

\* ---- C17
\* every write guard is dropped again, every read guard is dropped again
WriteGuardsDropped == \A t \in Threads : []<>(wguards[t] = 0)
ReadGuardsDropped == \A t \in Threads : []<>(rguards[t] = 0)

\* no thread stays blocked in read() for ever
ReadersAdmitted == \A t \in Threads : []<>(pc[t] # "read_wait")

\* a thread leaves the loop of read() only by being admitted
ReadReturnsAdmitted ==
    \A t \in Threads : (pc[t] = "read_wait" /\ pc'[t] # "read_wait") =>
        /\ ret'.op = "read" /\ ret'.thread = t /\ ret'.res # "WouldBlock"
        /\ ~writer_held
        /\ reader_count' = reader_count + 1

\* C17 as stated: under a weakly fair scheduler, with finitely many write
\* acquisitions and every write guard eventually dropped, every thread
\* blocked in read() is eventually admitted.
ReaderLiveness == WriteGuardsDropped => ReadersAdmitted

\* C17 with read guards eventually dropped too: every blocked reader is
\* admitted; every write_unlock empties the waiters of `writer`; nobody
\* sleeps on `writer` while writer_held is false.
ReaderLivenessGuardsDropped ==
    /\ (WriteGuardsDropped /\ ReadGuardsDropped) => ReadersAdmitted
    /\ [][ReadReturnsAdmitted]_vars
    /\ [][(writer_held /\ ~writer_held') => writer_cv' = {}]_vars
    /\ [](~writer_held => writer_cv = {})

\* a reader sleeps in read() behind a writer
WitnessReaderBlocked ==
    \E t \in Threads : pc[t] = "read_wait" /\ t \in writer_cv /\ writer_held

====
